---- MODULE Spec2Model ----
(***************************************************************************)
(* GPU resource wrappers of learning-ge-rust: Buffer and VertexArray       *)
(* (src/src/buffers.rs), Shader and ShaderProgram (src/src/shaders.rs) and *)
(* the driver routine main (src/src/main.rs), over a model of the part of  *)
(* the OpenGL 4.3 core context state those wrappers read and write.        *)
(***************************************************************************)
EXTENDS Integers, Sequences, FiniteSets, TLC

VARIABLES gl, buffers, vaos, shaders, programs, last, pc, m, calls

vars == <<gl, buffers, vaos, shaders, programs, last, pc, m, calls>>

(***************************************************************************)
(* Bounds of the model.                                                    *)
(***************************************************************************)
MaxBuffers == 3     \* buffer names the driver hands out: 1..MaxBuffers
MaxVaos == 2        \* vertex array names the driver hands out
MaxObjs == 3        \* shader/program names the driver hands out (one namespace)
MaxElems == 2       \* longest slice given to set_data
MaxMove == 1        \* |x_value|, |y_value| <= MaxMove steps of 0.02 in main's loop
MaxUploadCalls == 5     \* calls made by the caller of Spec
MaxLayoutCalls == 6     \* calls made by the caller of SpecLayout
MaxShaderCalls == 7     \* calls made by the caller of SpecShaders
MaxLifetimeCalls == 5   \* calls made by the caller of SpecLifetime

BufIds == 1..MaxBuffers
VaoIds == 1..MaxVaos
ObjIds == 1..MaxObjs
Slots == {0, 1}

ARRAY_BUFFER == "ARRAY_BUFFER"
ELEMENT_ARRAY_BUFFER == "ELEMENT_ARRAY_BUFFER"
BufferTypes == {ARRAY_BUFFER, ELEMENT_ARRAY_BUFFER}

(***************************************************************************)
(* Slices handed to set_data.  A slice &[D] is its element type (size and  *)
(* alignment of D in bytes), its length, the address of its first element  *)
(* modulo 4.  Its byte image is the sequence of its bytes, each named        *)
(* <<element index, byte index in the element>>.                           *)
(***************************************************************************)
U8 == [size |-> 1, align |-> 1]
U16 == [size |-> 2, align |-> 2]
U32 == [size |-> 4, align |-> 4]
Vertex == [size |-> 12, align |-> 4]      \* type Vertex = [f32; 3]
F32Size == 4

Slice(ty, n, addr) == [ty |-> ty, n |-> n, addr |-> addr]

ByteImage(data) ==
  [i \in 1..(data.n * data.ty.size) |->
     <<(i - 1) \div data.ty.size, (i - 1) % data.ty.size>>]

\* ptr::align_offset: the least number of elements to skip to reach an f32
\* boundary, or more than any length when no element starts at one.
NoOffset == 1000000
AlignOffset(data) ==
  LET ks == {k \in 0..(F32Size - 1) : (data.addr + k * data.ty.size) % F32Size = 0}
  IN  IF ks = {} THEN NoOffset ELSE CHOOSE k \in ks : \A j \in ks : k <= j

\* size_of_val of the middle part of data.align_to::<f32>()
AlignToMiddleBytes(data) ==
  LET off == AlignOffset(data)
  IN  IF off > data.n THEN 0
      ELSE F32Size * (((data.n - off) * data.ty.size) \div F32Size)

(***************************************************************************)
(* The context state.  Element-array binding and attribute pointers belong *)
(* to the bound vertex array (name 0: none bound); the array-buffer        *)
(* binding and the program in use belong to the context.  Shaders and      *)
(* programs share one name space.                                          *)
(***************************************************************************)
NoAttr == [enabled |-> FALSE, buffer |-> 0, count |-> 0, stride |-> 0]
NoObj == [kind |-> "none", status |-> "none", flagged |-> FALSE, attached |-> {}]

GlInit ==
  [bufNames |-> {},
   store |-> [b \in BufIds |-> << >>],
   arrayBinding |-> 0,
   vaoNames |-> {},
   elem |-> [v \in VaoIds \cup {0} |-> 0],
   attr |-> [v \in VaoIds |-> [s \in Slots |-> NoAttr]],
   boundVAO |-> 0,
   obj |-> [o \in ObjIds |-> NoObj],
   current |-> 0,
   uniform |-> [xPosition |-> 0, yPosition |-> 0],
   polygonMode |-> "FILL"]

\* the buffer bound to a target
ActiveBuffer(g, target) ==
  IF target = ARRAY_BUFFER THEN g.arrayBinding ELSE g.elem[g.boundVAO]

glGenBuffers(g, id) == [g EXCEPT !.bufNames = @ \cup {id}]

glBindBuffer(g, target, id) ==
  IF id \notin g.bufNames THEN g
  ELSE IF target = ARRAY_BUFFER THEN [g EXCEPT !.arrayBinding = id]
  ELSE [g EXCEPT !.elem[g.boundVAO] = id]

\* the bound buffer's store becomes the first `size` bytes at `data`
glBufferData(g, target, size, data) ==
  LET b == ActiveBuffer(g, target)
  IN  IF b = 0 THEN g
      ELSE [g EXCEPT !.store[b] = SubSeq(ByteImage(data), 1, size)]

\* the name is freed; bindings of the context and of the bound vertex array
\* that name it revert to 0
glDeleteBuffers(g, id) ==
  IF id \notin g.bufNames THEN g
  ELSE LET v == g.boundVAO
           g1 == [g EXCEPT !.bufNames = @ \ {id},
                           !.store[id] = << >>,
                           !.arrayBinding = IF @ = id THEN 0 ELSE @,
                           !.elem[v] = IF @ = id THEN 0 ELSE @]
       IN  IF v = 0 THEN g1
           ELSE [g1 EXCEPT !.attr[v] =
                   [s \in Slots |-> IF g.attr[v][s].buffer = id
                                    THEN [g.attr[v][s] EXCEPT !.buffer = 0]
                                    ELSE g.attr[v][s]]]

glGenVertexArrays(g, id) == [g EXCEPT !.vaoNames = @ \cup {id}]

glBindVertexArray(g, id) ==
  IF id # 0 /\ id \notin g.vaoNames THEN g ELSE [g EXCEPT !.boundVAO = id]

\* core profile: an error and no effect when no vertex array is bound
glVertexAttribPointer(g, location, count, stride) ==
  IF g.boundVAO = 0 THEN g
  ELSE [g EXCEPT !.attr[g.boundVAO][location] =
          [@ EXCEPT !.buffer = g.arrayBinding, !.count = count, !.stride = stride]]

glEnableVertexAttribArray(g, location) ==
  IF g.boundVAO = 0 THEN g
  ELSE [g EXCEPT !.attr[g.boundVAO][location].enabled = TRUE]

glDeleteVertexArrays(g, id) ==
  IF id \notin g.vaoNames THEN g
  ELSE [g EXCEPT !.vaoNames = @ \ {id},
                 !.elem[id] = 0,
                 !.attr[id] = [s \in Slots |-> NoAttr],
                 !.boundVAO = IF @ = id THEN 0 ELSE @]

glCreateShader(g, id) ==
  [g EXCEPT !.obj[id] = [kind |-> "shader", status |-> "none",
                         flagged |-> FALSE, attached |-> {}]]

glCompileShader(g, id, success) ==
  [g EXCEPT !.obj[id].status = IF success THEN "ok" ELSE "failed"]

glCreateProgram(g, id) ==
  [g EXCEPT !.obj[id] = [kind |-> "program", status |-> "none",
                         flagged |-> FALSE, attached |-> {}]]

glAttachShader(g, program, shader) ==
  IF g.obj[program].kind = "program" /\ g.obj[shader].kind = "shader"
  THEN [g EXCEPT !.obj[program].attached = @ \cup {shader}]
  ELSE g

glLinkProgram(g, program, success) ==
  [g EXCEPT !.obj[program].status = IF success THEN "ok" ELSE "failed"]

\* an error and no effect unless the name is a linked program
glUseProgram(g, program) ==
  IF program # 0 /\ g.obj[program].kind = "program" /\ g.obj[program].status = "ok"
  THEN [g EXCEPT !.current = program]
  ELSE g

\* uniforms of the program in use, in steps of `movement`
glUniform1f(g, name, value) ==
  IF g.current = 0 THEN g ELSE [g EXCEPT !.uniform[name] = value]

glPolygonMode(g, mode) == [g EXCEPT !.polygonMode = mode]

\* A shader attached to a program is only flagged for deletion; a name that
\* is not a shader (a program, an unused name) is an error and no effect.
glDeleteShader(g, id) ==
  IF g.obj[id].kind # "shader" THEN g
  ELSE IF \E p \in ObjIds : id \in g.obj[p].attached
       THEN [g EXCEPT !.obj[id].flagged = TRUE]
       ELSE [g EXCEPT !.obj[id] = NoObj]

(***************************************************************************)
(* buffers.rs: Buffer and VertexArray.  A wrapper is the record of its     *)
(* fields; a method maps the context state to the state it leaves.         *)
(***************************************************************************)
Buffer_new(g, buffer_type, id) ==
  [gl |-> glGenBuffers(g, id), ret |-> [id |-> id, buffer_type |-> buffer_type]]

\* a Buffer::bind that passes a fixed target instead of self.buffer_type
Buffer_bind_fixed_target(g, self) == glBindBuffer(g, ARRAY_BUFFER, self.id)

Buffer_bind(g, self) == glBindBuffer(g, self.buffer_type, self.id)

Buffer_set_data(g, self, data) ==
  glBufferData(Buffer_bind(g, self), self.buffer_type, AlignToMiddleBytes(data), data)

Buffer_drop(g, self) == glDeleteBuffers(g, self.id)

VertexArray_new(g, id) == [gl |-> glGenVertexArrays(g, id), ret |-> [id |-> id]]

VertexArray_bind(g, self) == glBindVertexArray(g, self.id)

\* a set_layout that binds its own vertex array first
VertexArray_set_layout_binding_self(g, self, location, count, stride) ==
  glEnableVertexAttribArray(
    glVertexAttribPointer(glBindVertexArray(g, self.id), location, count, stride),
    location)

VertexArray_set_layout(g, self, location, count, stride) ==
  glEnableVertexAttribArray(glVertexAttribPointer(g, location, count, stride), location)

VertexArray_drop(g, self) == glDeleteVertexArrays(g, self.id)

(***************************************************************************)
(* shaders.rs: ShaderError, Shader and ShaderProgram.                      *)
(***************************************************************************)
\* String::from_utf8: the same bytes when they are valid UTF-8.  The logs of
\* the model are made of ASCII bytes (valid) and 0xFF (never valid).
from_utf8(bytes) ==
  IF \A i \in 1..Len(bytes) : bytes[i] < 128
  THEN [ok |-> TRUE, text |-> bytes]
  ELSE [ok |-> FALSE, text |-> << >>]

Ok(v) == [tag |-> "Ok", val |-> v]
Err(variant, text) == [tag |-> "Err", val |-> [variant |-> variant, text |-> text]]
Panic == [tag |-> "Panic", val |-> "unwrap"]

Shader_drop(g, self) == glDeleteShader(g, self.id)

ShaderProgram_drop(g, self) == glDeleteShader(g, self.id)

\* id: the name CreateShader returns; nul: the source holds a NUL byte;
\* out: the driver's compile status and info log.  The local `shader` is
\* dropped on every path that does not return it.
Shader_new(g, id, nul, out) ==
  LET shader == [id |-> id]
      g1 == glCreateShader(g, id)
      g2 == glCompileShader(g1, id, out.success)
      log == from_utf8(out.log)
  IN  IF nul THEN [gl |-> Shader_drop(g1, shader), ret |-> Panic]
      ELSE IF out.success THEN [gl |-> g2, ret |-> Ok(shader)]
      ELSE IF ~log.ok THEN [gl |-> Shader_drop(g2, shader), ret |-> Panic]
      ELSE [gl |-> Shader_drop(g2, shader),
            ret |-> Err("CompilationError", log.text)]

RECURSIVE AttachAll(_, _, _)
AttachAll(g, program, ss) ==
  IF ss = {} THEN g
  ELSE LET s == CHOOSE x \in ss : TRUE
       IN  AttachAll(glAttachShader(g, program, s.id), program, ss \ {s})

\* a ShaderProgram::new that does not look at the link status
ShaderProgram_new_unchecked(g, id, ss, out) ==
  [gl |-> glLinkProgram(AttachAll(glCreateProgram(g, id), id, ss), id, out.success),
   ret |-> Ok([id |-> id])]

\* id: the name CreateProgram returns; ss: the Shader values of the slice;
\* out: the driver's link status and info log.
ShaderProgram_new(g, id, ss, out) ==
  LET program == [id |-> id]
      g1 == AttachAll(glCreateProgram(g, id), id, ss)
      g2 == glLinkProgram(g1, id, out.success)
      log == from_utf8(out.log)
  IN  IF out.success THEN [gl |-> g2, ret |-> Ok(program)]
      ELSE IF ~log.ok THEN [gl |-> ShaderProgram_drop(g2, program),
                            ret |-> Err("Utf8Error", << >>)]
      ELSE [gl |-> ShaderProgram_drop(g2, program),
            ret |-> Err("LinkingError", log.text)]

ShaderProgram_apply(g, self) == glUseProgram(g, self.id)

(***************************************************************************)
(* A caller of the wrappers: it owns the wrappers it has made (unique,     *)
(* non-copyable values), calls their methods in any order and drops them.  *)
(* `last` is the call made last: its name, the id of its receiver, its     *)
(* inputs and what it returned.  `calls` is the number of calls the caller *)
(* has yet to make.                                                        *)
(***************************************************************************)
ElemTypes == {U8, U16, U32}
\* slices at an f32 boundary and at the first address after it that D's
\* alignment allows
Slices ==
  UNION {{Slice(ty, n, addr) : n \in 0..MaxElems, addr \in {0, ty.align % F32Size}} :
            ty \in ElemTypes}

Counts == {3}
Strides == {0, 12}

ValidLog == <<101>>
InvalidLog == <<255>>
DriverOutcomes ==
  {[success |-> TRUE, log |-> << >>], [success |-> TRUE, log |-> ValidLog],
   [success |-> FALSE, log |-> << >>], [success |-> FALSE, log |-> ValidLog],
   [success |-> FALSE, log |-> InvalidLog]}

MOff == [pc |-> "off"]
Call(op, id, arg, ret) == [op |-> op, id |-> id, arg |-> arg, ret |-> ret]

InitWith(n) ==
  /\ gl = GlInit
  /\ buffers = {} /\ vaos = {} /\ shaders = {} /\ programs = {}
  /\ last = Call("none", 0, "-", "-")
  /\ pc = "run"
  /\ m = MOff
  /\ calls = n

\* the caller runs, and has a call left to make
Running == pc = "run" /\ m.pc = "off" /\ calls > 0 /\ calls' = calls - 1

DoBufferNew(buffer_type, id) ==
  /\ Running /\ id \notin gl.bufNames
  /\ LET r == Buffer_new(gl, buffer_type, id)
     IN  /\ gl' = r.gl
         /\ buffers' = buffers \cup {r.ret}
  /\ last' = Call("Buffer::new", id, "-", "-")
  /\ UNCHANGED <<vaos, shaders, programs, pc, m>>

DoBufferBind(b) ==
  /\ Running /\ b \in buffers
  /\ gl' = Buffer_bind(gl, b)
  /\ last' = Call("Buffer::bind", b.id, [t \in BufferTypes |-> ActiveBuffer(gl, t)], "-")
  /\ UNCHANGED <<buffers, vaos, shaders, programs, pc, m>>

DoBufferSetData(b, data) ==
  /\ Running /\ b \in buffers
  /\ gl' = Buffer_set_data(gl, b, data)
  /\ last' = Call("Buffer::set_data", b.id, "-", "-")
  /\ UNCHANGED <<buffers, vaos, shaders, programs, pc, m>>

DoBufferDrop(b) ==
  /\ Running /\ b \in buffers
  /\ gl' = Buffer_drop(gl, b)
  /\ buffers' = buffers \ {b}
  /\ last' = Call("Buffer::drop", b.id, "-", "-")
  /\ UNCHANGED <<vaos, shaders, programs, pc, m>>

DoVertexArrayNew(id) ==
  /\ Running /\ id \notin gl.vaoNames
  /\ LET r == VertexArray_new(gl, id)
     IN  /\ gl' = r.gl
         /\ vaos' = vaos \cup {r.ret}
  /\ last' = Call("VertexArray::new", id, "-", "-")
  /\ UNCHANGED <<buffers, shaders, programs, pc, m>>

DoVertexArrayBind(v) ==
  /\ Running /\ v \in vaos
  /\ gl' = VertexArray_bind(gl, v)
  /\ last' = Call("VertexArray::bind", v.id, "-", "-")
  /\ UNCHANGED <<buffers, vaos, shaders, programs, pc, m>>

DoVertexArraySetLayout(v, location, count, stride) ==
  /\ Running /\ v \in vaos
  /\ gl' = VertexArray_set_layout(gl, v, location, count, stride)
  /\ last' = Call("VertexArray::set_layout", v.id,
                  [location |-> location, count |-> count, stride |-> stride], "-")
  /\ UNCHANGED <<buffers, vaos, shaders, programs, pc, m>>

DoVertexArrayDrop(v) ==
  /\ Running /\ v \in vaos
  /\ gl' = VertexArray_drop(gl, v)
  /\ vaos' = vaos \ {v}
  /\ last' = Call("VertexArray::drop", v.id, "-", "-")
  /\ UNCHANGED <<buffers, shaders, programs, pc, m>>

FreeObj(g, id) == g.obj[id].kind = "none"

DoShaderNew(id, nul, out) ==
  /\ Running /\ FreeObj(gl, id)
  /\ LET r == Shader_new(gl, id, nul, out)
     IN  /\ gl' = r.gl
         /\ shaders' = IF r.ret.tag = "Ok" THEN shaders \cup {r.ret.val} ELSE shaders
         /\ pc' = IF r.ret.tag = "Panic" THEN "panicked" ELSE pc
         /\ last' = Call("Shader::new", id, [nul |-> nul, out |-> out], r.ret)
  /\ UNCHANGED <<buffers, vaos, programs, m>>

DoShaderDrop(s) ==
  /\ Running /\ s \in shaders
  /\ gl' = Shader_drop(gl, s)
  /\ shaders' = shaders \ {s}
  /\ last' = Call("Shader::drop", s.id, "-", "-")
  /\ UNCHANGED <<buffers, vaos, programs, pc, m>>

DoShaderProgramNew(id, ss, out) ==
  /\ Running /\ FreeObj(gl, id) /\ ss \subseteq shaders
  /\ LET r == ShaderProgram_new(gl, id, ss, out)
     IN  /\ gl' = r.gl
         /\ programs' = IF r.ret.tag = "Ok" THEN programs \cup {r.ret.val} ELSE programs
         /\ last' = Call("ShaderProgram::new", id, [ss |-> ss, out |-> out], r.ret)
  /\ UNCHANGED <<buffers, vaos, shaders, pc, m>>

DoShaderProgramApply(p) ==
  /\ Running /\ p \in programs
  /\ gl' = ShaderProgram_apply(gl, p)
  /\ last' = Call("ShaderProgram::apply", p.id, "-", "-")
  /\ UNCHANGED <<buffers, vaos, shaders, programs, pc, m>>

DoShaderProgramDrop(p) ==
  /\ Running /\ p \in programs
  /\ gl' = ShaderProgram_drop(gl, p)
  /\ programs' = programs \ {p}
  /\ last' = Call("ShaderProgram::drop", p.id, "-", "-")
  /\ UNCHANGED <<buffers, vaos, shaders, pc, m>>

\* the calls that move buffers and bindings, uploads included
NextBuffers ==
  \/ \E t \in BufferTypes, id \in BufIds : DoBufferNew(t, id)
  \/ \E b \in buffers : DoBufferBind(b)
  \/ \E b \in buffers, d \in Slices : DoBufferSetData(b, d)
  \/ \E b \in buffers : DoBufferDrop(b)
  \/ \E id \in VaoIds : DoVertexArrayNew(id)
  \/ \E v \in vaos : DoVertexArrayBind(v)
  \/ \E v \in vaos : DoVertexArrayDrop(v)

\* the calls that configure vertex arrays
NextLayout ==
  \/ \E t \in BufferTypes, id \in BufIds : DoBufferNew(t, id)
  \/ \E b \in buffers : DoBufferBind(b)
  \/ \E b \in buffers : DoBufferDrop(b)
  \/ \E id \in VaoIds : DoVertexArrayNew(id)
  \/ \E v \in vaos : DoVertexArrayBind(v)
  \/ \E v \in vaos, l \in Slots, c \in Counts, st \in Strides :
        DoVertexArraySetLayout(v, l, c, st)
  \/ \E v \in vaos : DoVertexArrayDrop(v)

NextShaders ==
  \/ \E id \in ObjIds, nul \in BOOLEAN, out \in DriverOutcomes : DoShaderNew(id, nul, out)
  \/ \E s \in shaders : DoShaderDrop(s)
  \/ \E id \in ObjIds, ss \in SUBSET shaders, out \in DriverOutcomes :
        DoShaderProgramNew(id, ss, out)
  \/ \E p \in programs : DoShaderProgramApply(p)
  \/ \E p \in programs : DoShaderProgramDrop(p)

\* creation and destruction of the four kinds of wrapper
NextLifetime ==
  \/ \E t \in BufferTypes, id \in BufIds : DoBufferNew(t, id)
  \/ \E b \in buffers : DoBufferDrop(b)
  \/ \E id \in VaoIds : DoVertexArrayNew(id)
  \/ \E v \in vaos : DoVertexArrayDrop(v)
  \/ \E id \in ObjIds, nul \in BOOLEAN, out \in DriverOutcomes : DoShaderNew(id, nul, out)
  \/ \E s \in shaders : DoShaderDrop(s)
  \/ \E id \in ObjIds, ss \in SUBSET shaders, out \in DriverOutcomes :
        DoShaderProgramNew(id, ss, out)
  \/ \E p \in programs : DoShaderProgramDrop(p)

Init == InitWith(MaxUploadCalls)
Next == NextBuffers
Spec == Init /\ [][Next]_vars
SpecLayout == InitWith(MaxLayoutCalls) /\ [][NextLayout]_vars
SpecShaders == InitWith(MaxShaderCalls) /\ [][NextShaders]_vars
SpecLifetime == InitWith(MaxLifetimeCalls) /\ [][NextLifetime]_vars

(***************************************************************************)
(* main.rs: fn main, one action per statement from the construction of     *)
(* shader_program (line 175) to the end of main.  m holds main's position  *)
(* and locals.  A failed expect panics and ends the run.                   *)
(***************************************************************************)
vertices == Slice(Vertex, 4, 0)
vertex_colors == Slice(Vertex, 3, 0)
indices == Slice(U32, 6, 0)
VertexStride == 12
VertexComponents == 3

NoShader == [id |-> 0]
NoBuffer == [id |-> 0, buffer_type |-> "-"]

MInit ==
  [pc |-> "vertex_shader",
   vertex_shader |-> NoShader, fragment_shader |-> NoShader,
   shader_program |-> NoShader,
   index_array |-> NoBuffer, vertex_buffer |-> NoBuffer, color_buffer |-> NoBuffer,
   vertex_array |-> 0,
   x_value |-> 0, y_value |-> 0,
   should_close |-> FALSE]

InitMain ==
  /\ gl = GlInit
  /\ buffers = {} /\ vaos = {} /\ shaders = {} /\ programs = {}
  /\ last = Call("none", 0, "-", "-")
  /\ pc = "run"
  /\ m = MInit
  /\ calls = 0

At(l) == pc = "run" /\ m.pc = l
MFrame == UNCHANGED <<vaos, last, calls>>

\* lines 176-177
MainVertexShader(id, out) ==
  /\ At("vertex_shader") /\ FreeObj(gl, id)
  /\ LET r == Shader_new(gl, id, FALSE, out)
     IN  /\ gl' = r.gl
         /\ IF r.ret.tag = "Ok"
            THEN /\ shaders' = shaders \cup {r.ret.val}
                 /\ m' = [m EXCEPT !.pc = "fragment_shader", !.vertex_shader = r.ret.val]
                 /\ pc' = pc
            ELSE /\ pc' = "panicked"
                 /\ UNCHANGED <<shaders, m>>
  /\ UNCHANGED programs /\ UNCHANGED buffers /\ MFrame

\* lines 178-179; a panic unwinds through vertex_shader
MainFragmentShader(id, out) ==
  /\ At("fragment_shader") /\ FreeObj(gl, id)
  /\ LET r == Shader_new(gl, id, FALSE, out)
     IN  IF r.ret.tag = "Ok"
         THEN /\ gl' = r.gl
              /\ shaders' = shaders \cup {r.ret.val}
              /\ m' = [m EXCEPT !.pc = "shader_program", !.fragment_shader = r.ret.val]
              /\ pc' = pc
         ELSE /\ gl' = Shader_drop(r.gl, m.vertex_shader)
              /\ shaders' = shaders \ {m.vertex_shader}
              /\ pc' = "panicked"
              /\ m' = m
  /\ UNCHANGED programs /\ UNCHANGED buffers /\ MFrame

\* lines 180-181; the array of the two stages is a temporary of the statement,
\* dropped (fragment_shader last) when the statement ends or panics
MainShaderProgram(id, out) ==
  /\ At("shader_program") /\ FreeObj(gl, id)
  /\ LET ss == {m.vertex_shader, m.fragment_shader}
         r == ShaderProgram_new(gl, id, ss, out)
     IN  /\ gl' = Shader_drop(Shader_drop(r.gl, m.vertex_shader), m.fragment_shader)
         /\ shaders' = shaders \ ss
         /\ IF r.ret.tag = "Ok"
            THEN /\ programs' = programs \cup {r.ret.val}
                 /\ m' = [m EXCEPT !.pc = "index_array", !.shader_program = r.ret.val]
                 /\ pc' = pc
            ELSE /\ pc' = "panicked"
                 /\ UNCHANGED <<programs, m>>
  /\ UNCHANGED buffers /\ MFrame

\* lines 246-248
MainBufferNew(l, field, buffer_type, next, id) ==
  /\ At(l) /\ id \notin gl.bufNames
  /\ LET r == Buffer_new(gl, buffer_type, id)
     IN  /\ gl' = r.gl
         /\ buffers' = buffers \cup {r.ret}
         /\ m' = [m EXCEPT !.pc = next, ![field] = r.ret]
  /\ UNCHANGED <<shaders, programs, pc>> /\ MFrame

MainIndexArray(id) ==
  MainBufferNew("index_array", "index_array", ELEMENT_ARRAY_BUFFER, "vertex_buffer", id)
MainVertexBuffer(id) ==
  MainBufferNew("vertex_buffer", "vertex_buffer", ARRAY_BUFFER, "color_buffer", id)
MainColorBuffer(id) ==
  MainBufferNew("color_buffer", "color_buffer", ARRAY_BUFFER, "gen_vertex_array", id)

\* a statement that only calls into the context
MainGl(l, g, next) ==
  /\ At(l)
  /\ gl' = g
  /\ m' = [m EXCEPT !.pc = next]
  /\ UNCHANGED <<buffers, shaders, programs, pc>> /\ MFrame

\* line 250
MainGenVertexArrays(id) ==
  /\ At("gen_vertex_array") /\ id \notin gl.vaoNames
  /\ gl' = glGenVertexArrays(gl, id)
  /\ m' = [m EXCEPT !.pc = "bind_vertex_array", !.vertex_array = id]
  /\ UNCHANGED <<buffers, shaders, programs, pc>> /\ MFrame

\* line 251
MainBindVertexArray ==
  MainGl("bind_vertex_array", glBindVertexArray(gl, m.vertex_array), "vertex_bind")
\* line 253
MainVertexBind ==
  MainGl("vertex_bind", Buffer_bind(gl, m.vertex_buffer), "vertex_data")
\* line 254
MainVertexData ==
  MainGl("vertex_data", Buffer_set_data(gl, m.vertex_buffer, vertices), "attrib0")
\* lines 256-264
Main_attrib0(g) ==
  glEnableVertexAttribArray(
    glVertexAttribPointer(g, 0, VertexComponents, VertexStride), 0)
MainAttrib0 == MainGl("attrib0", Main_attrib0(gl), "color_bind")
\* line 266
MainColorBind ==
  MainGl("color_bind", Buffer_bind(gl, m.color_buffer), "color_data")
\* line 267
MainColorData ==
  MainGl("color_data", Buffer_set_data(gl, m.color_buffer, vertex_colors), "attrib1")
\* the second attribute declared with the first one's slot
Main_attrib1_slot0(g) ==
  glEnableVertexAttribArray(
    glVertexAttribPointer(g, 0, VertexComponents, VertexStride), 0)

\* lines 269-277
Main_attrib1(g) ==
  glEnableVertexAttribArray(
    glVertexAttribPointer(g, 1, VertexComponents, VertexStride), 1)
MainAttrib1 == MainGl("attrib1", Main_attrib1(gl), "index_bind")
\* line 279
MainIndexBind ==
  MainGl("index_bind", Buffer_bind(gl, m.index_array), "index_data")
\* line 280
MainIndexData ==
  MainGl("index_data", Buffer_set_data(gl, m.index_array, indices), "while")

\* line 286
MainWhile ==
  /\ At("while")
  /\ m' = [m EXCEPT !.pc = IF m.should_close THEN "drop_color_buffer" ELSE "apply"]
  /\ UNCHANGED <<gl, buffers, shaders, programs, pc>> /\ MFrame

\* line 293
MainApply == MainGl("apply", ShaderProgram_apply(gl, m.shader_program), "bind_frame")
\* line 294
MainBindFrame == MainGl("bind_frame", glBindVertexArray(gl, m.vertex_array), "draw")
\* lines 307-312: the draw call reads the state and changes none of it
MainDrawElements == MainGl("draw", gl, "events")

\* lines 317-340: one event of the frame's batch
Keys == {"Right", "Left", "Up", "Down", "Escape", "Num1", "Num2"}
MainEvent(key) ==
  /\ At("events")
  /\ CASE key = "Right" ->
            /\ m.x_value < MaxMove
            /\ m' = [m EXCEPT !.x_value = @ + 1]
            /\ gl' = glUniform1f(gl, "xPosition", m.x_value + 1)
       [] key = "Left" ->
            /\ m.x_value > -MaxMove
            /\ m' = [m EXCEPT !.x_value = @ - 1]
            /\ gl' = glUniform1f(gl, "xPosition", m.x_value - 1)
       [] key = "Up" ->
            /\ m.y_value < MaxMove
            /\ m' = [m EXCEPT !.y_value = @ + 1]
            /\ gl' = glUniform1f(gl, "yPosition", m.y_value + 1)
       [] key = "Down" ->
            /\ m.y_value > -MaxMove
            /\ m' = [m EXCEPT !.y_value = @ - 1]
            /\ gl' = glUniform1f(gl, "yPosition", m.y_value - 1)
       [] key = "Escape" ->
            /\ m' = [m EXCEPT !.should_close = TRUE]
            /\ gl' = gl
       [] key = "Num1" ->
            /\ m' = m
            /\ gl' = glPolygonMode(gl, "FILL")
       [] key = "Num2" ->
            /\ m' = m
            /\ gl' = glPolygonMode(gl, "LINE")
  /\ UNCHANGED <<buffers, shaders, programs, pc>> /\ MFrame

\* the batch is exhausted
MainEventsDone ==
  /\ At("events")
  /\ m' = [m EXCEPT !.pc = "while"]
  /\ UNCHANGED <<gl, buffers, shaders, programs, pc>> /\ MFrame

\* line 342: the block's buffers go out of scope, last declared first
MainBufferDrop(l, b, next) ==
  /\ At(l)
  /\ gl' = Buffer_drop(gl, b)
  /\ buffers' = buffers \ {b}
  /\ m' = [m EXCEPT !.pc = next]
  /\ UNCHANGED <<shaders, programs, pc>> /\ MFrame

MainDropColorBuffer == MainBufferDrop("drop_color_buffer", m.color_buffer, "drop_vertex_buffer")
MainDropVertexBuffer == MainBufferDrop("drop_vertex_buffer", m.vertex_buffer, "drop_index_array")
MainDropIndexArray == MainBufferDrop("drop_index_array", m.index_array, "drop_shader_program")

\* line 343: shader_program goes out of scope
MainDropShaderProgram ==
  /\ At("drop_shader_program")
  /\ gl' = ShaderProgram_drop(gl, m.shader_program)
  /\ programs' = programs \ {m.shader_program}
  /\ m' = [m EXCEPT !.pc = "done"]
  /\ UNCHANGED <<buffers, shaders, pc>> /\ MFrame

NextMain ==
  \/ \E id \in ObjIds, out \in DriverOutcomes : MainVertexShader(id, out)
  \/ \E id \in ObjIds, out \in DriverOutcomes : MainFragmentShader(id, out)
  \/ \E id \in ObjIds, out \in DriverOutcomes : MainShaderProgram(id, out)
  \/ \E id \in BufIds : MainIndexArray(id)
  \/ \E id \in BufIds : MainVertexBuffer(id)
  \/ \E id \in BufIds : MainColorBuffer(id)
  \/ \E id \in VaoIds : MainGenVertexArrays(id)
  \/ MainBindVertexArray
  \/ MainVertexBind
  \/ MainVertexData
  \/ MainAttrib0
  \/ MainColorBind
  \/ MainColorData
  \/ MainAttrib1
  \/ MainIndexBind
  \/ MainIndexData
  \/ MainWhile
  \/ MainApply
  \/ MainBindFrame
  \/ MainDrawElements
  \/ \E key \in Keys : MainEvent(key)
  \/ MainEventsDone
  \/ MainDropColorBuffer
  \/ MainDropVertexBuffer
  \/ MainDropIndexArray
  \/ MainDropShaderProgram

SpecMain == InitMain /\ [][NextMain]_vars

(***************************************************************************)
(* Properties.                                                             *)
(***************************************************************************)
Released(g, id) == g.obj[id].kind = "none" \/ g.obj[id].flagged
LiveObjs(g) == {o \in ObjIds : g.obj[o].kind # "none"}
OtherType(t) == IF t = ARRAY_BUFFER THEN ELEMENT_ARRAY_BUFFER ELSE ARRAY_BUFFER
IsNew(op) == op \in {"Shader::new", "ShaderProgram::new"}

\* C1: dropping a wrapper releases the identifier it owns: right after the
\* drop of a Buffer, VertexArray, Shader or ShaderProgram the driver no longer
\* holds that identifier as a live object of its kind.
C1_DropReleasesOwnedId ==
  /\ last.op = "Buffer::drop" => last.id \notin gl.bufNames
  /\ last.op = "VertexArray::drop" => last.id \notin gl.vaoNames
  /\ last.op = "Shader::drop" => Released(gl, last.id)
  /\ last.op = "ShaderProgram::drop" => Released(gl, last.id)

\* C2: a Shader::new or ShaderProgram::new that returns an error leaves the
\* set of live driver objects as it was before the call.
C2_FailedNewLeaksNothing ==
  [][(IsNew(last'.op) /\ last'.ret.tag = "Err") => LiveObjs(gl') = LiveObjs(gl)]_vars

\* C3: when the driver reports failure and the info log is not valid UTF-8,
\* Shader::new and ShaderProgram::new both return the Utf8Error variant and
\* do not panic.
C3_InvalidLogIsReturned ==
  (/\ IsNew(last.op)
   /\ ~last.arg.out.success
   /\ ~from_utf8(last.arg.out.log).ok
   /\ last.op = "Shader::new" => ~last.arg.nul)
  => (/\ last.ret.tag = "Err"
      /\ last.ret.val.variant = "Utf8Error"
      /\ pc # "panicked")

\* C4: set_data of N elements of size S gives the driver a size of N*S bytes:
\* the store of the buffer is N*S bytes long after the upload.
C4_UploadSizeIsCountTimesSize ==
  [][\A b \in buffers, d \in Slices :
       DoBufferSetData(b, d) => Len(gl'.store[b.id]) = d.n * d.ty.size]_vars

\* C5: Shader::new returns Ok(stage) exactly when the driver reports compile
\* success and otherwise CompilationError with the driver's log unchanged;
\* every stage the caller holds is a compiled one.
C5_ShaderNewOutcome ==
  /\ (last.op = "Shader::new" /\ ~last.arg.nul) =>
        IF last.arg.out.success
        THEN last.ret = Ok([id |-> last.id])
        ELSE last.ret = Err("CompilationError", last.arg.out.log)
  /\ \A s \in shaders : gl.obj[s.id].kind = "shader" /\ gl.obj[s.id].status = "ok"

\* C6: after B.bind(), B is the active buffer of its kind, whichever buffer
\* was active before, and the active buffer of the other kind is the one that
\* was active before the call.
C6_LastBindWins ==
  last.op = "Buffer::bind" =>
    \A b \in buffers : b.id = last.id =>
      /\ ActiveBuffer(gl, b.buffer_type) = b.id
      /\ ActiveBuffer(gl, OtherType(b.buffer_type)) = last.arg[OtherType(b.buffer_type)]

\* C6 witness: B.bind() took over the target from another live buffer A of
\* the same kind.
C6_Witness ==
  /\ last.op = "Buffer::bind"
  /\ \E a, b \in buffers :
        /\ b.id = last.id /\ a.id # b.id /\ a.buffer_type = b.buffer_type
        /\ last.arg[b.buffer_type] = a.id
        /\ ActiveBuffer(gl, b.buffer_type) = b.id

\* C7: a ShaderProgram the caller holds is a linked, live program, whatever
\* became of the stages given to ShaderProgram::new, and apply() makes it the
\* program in use.
C7_ProgramOutlivesStages ==
  /\ \A p \in programs :
        gl.obj[p.id].kind = "program" /\ gl.obj[p.id].status = "ok"
  /\ last.op = "ShaderProgram::apply" => gl.current = last.id

\* C7 witness: apply() on a program whose stages have all been destroyed.
C7_Witness ==
  /\ last.op = "ShaderProgram::apply"
  /\ gl.current = last.id
  /\ gl.obj[last.id].attached # {}
  /\ \A s \in gl.obj[last.id].attached : gl.obj[s].flagged
  /\ shaders = {}

\* C8: set_data on B makes B the active buffer of its kind, makes B's store
\* the byte image of the data given, and changes no other buffer's store.
C8_UploadReplacesStore ==
  [][\A b \in buffers, d \in Slices :
       DoBufferSetData(b, d) =>
         /\ gl'.store[b.id] = ByteImage(d)
         /\ ActiveBuffer(gl', b.buffer_type) = b.id
         /\ \A o \in BufIds \ {b.id} : gl'.store[o] = gl.store[o]]_vars

\* C9: set_layout on X binds nothing and checks nothing: it declares and
\* enables the slot on the vertex array that is bound, sourcing from the
\* vertex buffer that is bound, and when that array is not X, X's attributes
\* are unchanged.
C9_SetLayoutConfiguresBoundArray ==
  [][\A v \in vaos, l \in Slots, c \in Counts, st \in Strides :
       DoVertexArraySetLayout(v, l, c, st) =>
         /\ gl'.boundVAO = gl.boundVAO
         /\ gl'.arrayBinding = gl.arrayBinding
         /\ gl.boundVAO # 0 =>
              gl'.attr[gl.boundVAO][l] =
                [enabled |-> TRUE, buffer |-> gl.arrayBinding, count |-> c, stride |-> st]
         /\ gl.boundVAO # v.id => gl'.attr[v.id] = gl.attr[v.id]]_vars

\* C9 witness: set_layout was called on X while another array Y was bound
\* with a vertex buffer: Y has the slot, X does not.
C9_Witness ==
  /\ last.op = "VertexArray::set_layout"
  /\ gl.boundVAO \notin {0, last.id}
  /\ gl.attr[gl.boundVAO][last.arg.location].enabled
  /\ gl.attr[gl.boundVAO][last.arg.location].buffer # 0
  /\ ~gl.attr[last.id][last.arg.location].enabled

\* C10: at every draw call of main's loop the linked program is in use, the
\* vertex array is bound, slot 0 reads vertex_buffer (4 vertices), slot 1 reads
\* color_buffer, the array's element buffer is index_array holding the 6
\* indices, and the three buffers are live.
C10_DrawState ==
  At("draw") =>
    /\ gl.current = m.shader_program.id
    /\ gl.obj[m.shader_program.id].kind = "program"
    /\ gl.obj[m.shader_program.id].status = "ok"
    /\ gl.boundVAO = m.vertex_array /\ m.vertex_array \in gl.vaoNames
    /\ gl.attr[m.vertex_array][0] =
         [enabled |-> TRUE, buffer |-> m.vertex_buffer.id,
          count |-> VertexComponents, stride |-> VertexStride]
    /\ gl.store[m.vertex_buffer.id] = ByteImage(vertices)
    /\ Len(gl.store[m.vertex_buffer.id]) = 4 * Vertex.size
    /\ gl.attr[m.vertex_array][1] =
         [enabled |-> TRUE, buffer |-> m.color_buffer.id,
          count |-> VertexComponents, stride |-> VertexStride]
    /\ gl.elem[m.vertex_array] = m.index_array.id
    /\ gl.store[m.index_array.id] = ByteImage(indices)
    /\ Len(gl.store[m.index_array.id]) = 6 * U32.size
    /\ {m.vertex_buffer, m.color_buffer, m.index_array} \subseteq buffers
    /\ {m.vertex_buffer.id, m.color_buffer.id, m.index_array.id} \subseteq gl.bufNames
    /\ Cardinality({m.vertex_buffer.id, m.color_buffer.id, m.index_array.id}) = 3

\* C10 witness: a draw call of a later frame, after key events of earlier ones.
C10_Witness ==
  /\ At("draw")
  /\ gl.polygonMode = "LINE"
  /\ gl.uniform.xPosition # 0

====
